---- MODULE Spec2Model ----
(***************************************************************************)
(* Model of the boolean-algebra-evaluator pipeline: tokenize               *)
(* (src/tokenizer.rs), Parser (src/ast.rs) and Evaluator                   *)
(* (src/evaluator.rs).  Characters are their Unicode scalar values         *)
(* ('a' = 97), so that `idents.sort()` is the integer order.               *)
(***************************************************************************)
EXTENDS Integers, Sequences, FiniteSets, TLC

(* ------------------------------ bounds --------------------------------- *)
\* longest token vector, over the whole token alphabet, handed to
\* Parser::new
MaxTokens == 3
\* most binary operators in an unparenthesized operand/operator chain
\* handed to Parser::new
MaxOps == 2
\* most pieces (single chars or keywords) in a source handed to tokenize
MaxPieces == 2
\* largest hand-built AST (number of Node values) handed to Evaluator::new
MaxNodes == 5
\* largest assignment mask passed to Evaluator::evaluate
MaxPass == 3

(* ------------------------------ tokens --------------------------------- *)
\* tokenizer.rs: enum Token; the unit variants
Token(t) == [type |-> t]
\* tokenizer.rs: Token::Identifier(char)
TokIdentifier(c) == [type |-> "Identifier", ch |-> c]

\* the identifier characters the model draws from: 'a', 'b', 'c'
IdentChars == {97, 98, 99}

UnitTokens == {Token(t) : t \in {"And", "Or", "Not", "Xor", "Equal",
                                 "GroupOpen", "GroupClose",
                                 "ConstTrue", "ConstFalse"}}
TokenAlphabet == UnitTokens \cup {TokIdentifier(c) : c \in {97, 98}}
TokenSeqs == UNION {[1..n -> TokenAlphabet] : n \in 0..MaxTokens}

\* unparenthesized chains x1 op x2 op ... xk of identifiers and binary
\* operators, as the token vector of test_ast_smal_valid
BinaryTokens == {Token(t) : t \in {"And", "Or", "Xor", "Equal"}}
ChainOperands == {TokIdentifier(c) : c \in IdentChars}
ChainOf(xs, ops) ==
    [i \in 1..(2 * Len(ops) + 1) |->
        IF i % 2 = 1 THEN xs[(i + 1) \div 2] ELSE ops[i \div 2]]
ChainSeqs ==
    UNION {{ChainOf(xs, ops) : xs \in [1..(n + 1) -> ChainOperands],
                               ops \in [1..n -> BinaryTokens]} :
           n \in 1..MaxOps}

\* the token vectors tests.rs hands to Parser::new
TestTokenVectors ==
    {<<TokIdentifier(97), Token("And"), TokIdentifier(98)>>,
     <<TokIdentifier(97), Token("And")>>,
     <<Token("GroupOpen"), TokIdentifier(97), Token("And"),
       TokIdentifier(98)>>,
     <<TokIdentifier(97), Token("And"), Token("And"), TokIdentifier(98)>>}

(* ----------------------------- tokenizer ------------------------------ *)
\* A source string is the sequence of its chars (Unicode scalar values):
\* ' ' 32, '!' 33, '&' 38, '(' 40, ')' 41, '0' 48, '1' 49, '=' 61, '?' 63,
\* 'A' 65, '^' 94, 'a'..'z' 97..122, '|' 124, 'e-acute' 233.

\* char::len_utf8: the bytes a char takes in a String (`i < str.len()`
\* and `&s[a..=b]` count bytes, `chars()` counts chars)
len_utf8(c) ==
    IF c < 128 THEN 1 ELSE IF c < 2048 THEN 2 ELSE IF c < 65536 THEN 3 ELSE 4

\* tokenizer.rs: VALID_IDENTIFIERS.contains(c)
VALID_IDENTIFIERS == 97..122

\* the literals "true" and "false"
KwTrue == <<116, 114, 117, 101>>
KwFalse == <<102, 97, 108, 115, 101>>

\* str::starts_with
starts_with(s, prefix) ==
    Len(s) >= Len(prefix) /\ SubSeq(s, 1, Len(prefix)) = prefix

\* get_char_slice(s, char_start, char_len): None when a `chars.get(..)?`
\* misses; `&s[start_byte..=end_byte]` ends one byte past the FIRST byte of
\* the last char and panics when that is not a char boundary
get_char_slice(s, char_start, char_len) ==
    IF ~(char_start < Len(s)) \/ ~(char_start + char_len - 1 < Len(s))
    THEN [kind |-> "None", chars |-> <<>>]
    ELSE IF len_utf8(s[char_start + char_len]) > 1
    THEN [kind |-> "Panic", chars |-> <<>>]
    ELSE [kind |-> "Some",
          chars |-> SubSeq(s, char_start + 1, char_start + char_len)]

\* Result<Vec<Token>, String> of tokenize, or the panic of the slice; an
\* Err keeps what the diagnostic is formatted from: the char, the reported
\* position and the number of spaces in front of the caret marker
TokOk(toks) == [ok |-> TRUE, panic |-> FALSE, tokens |-> toks]
TokErr(c, pos, spaces) ==
    [ok |-> FALSE, panic |-> FALSE, ch |-> c, pos |-> pos, spaces |-> spaces]
TokPanic == [ok |-> FALSE, panic |-> TRUE]

\* std::cmp::max
max(x, y) == IF x >= y THEN x ELSE y

\* tokenize, the `return Err(format!(..))` of both places; i is the
\* cursor, already advanced past the char
tokenize_error(c, i) == TokErr(c, i + 1, max(0, i - 1))

\* tokenize, the match arms for the single chars
SingleCharTokens ==
    [c \in {40, 41, 38, 124, 94, 33, 61, 49, 48} |->
        CASE c = 40 -> Token("GroupOpen")
          [] c = 41 -> Token("GroupClose")
          [] c = 38 -> Token("And")
          [] c = 124 -> Token("Or")
          [] c = 94 -> Token("Xor")
          [] c = 33 -> Token("Not")
          [] c = 61 -> Token("Equal")
          [] c = 49 -> Token("ConstTrue")
          [] c = 48 -> Token("ConstFalse")]

\* what one turn of the loop does
Continue(i) == [kind |-> "continue", i |-> i]
Push(tok, i) == [kind |-> "push", token |-> tok, i |-> i]
Return(res) == [kind |-> "return", res |-> res]

\* tokenize, the `_` arm once `peak` is there; i is already advanced
scan_word(c, peak, allow_identifiers, i) ==
    IF peak.kind = "Panic" THEN Return(TokPanic)
    ELSE IF peak.kind = "Some" /\ starts_with(peak.chars, KwTrue)
    THEN Push(Token("ConstTrue"), i + Len(KwTrue) - 1)
    ELSE IF peak.kind = "Some" /\ starts_with(peak.chars, KwFalse)
    THEN Push(Token("ConstFalse"), i + Len(KwFalse) - 1)
    ELSE IF c \in VALID_IDENTIFIERS /\ allow_identifiers
    THEN Push(TokIdentifier(c), i)
    ELSE Return(tokenize_error(c, i))

\* scan_char with the space arm returning the diagnostic
scan_char_space_as_error(str, allow_identifiers, i) ==
    LET c == str[i + 1]
    IN IF c = 32 THEN Return(tokenize_error(c, i + 1))
       ELSE IF c \in DOMAIN SingleCharTokens
       THEN Push(SingleCharTokens[c], i + 1)
       ELSE scan_word(c, get_char_slice(str, i, Len(str) - (i + 1) + 1),
                      allow_identifiers, i + 1)

\* tokenize, the body of the while loop: `let c = nth(i); i += 1; match c`
scan_char(str, allow_identifiers, i) ==
    LET c == str[i + 1]
    IN IF c = 32 THEN Continue(i + 1)
       ELSE IF c \in DOMAIN SingleCharTokens
       THEN Push(SingleCharTokens[c], i + 1)
       ELSE scan_word(c, get_char_slice(str, i, Len(str) - (i + 1) + 1),
                      allow_identifiers, i + 1)

\* tokenize, the loop's variables after a turn that did not return: the
\* cursor, and `result` with the token pushed if there is one
after_turn(step, result) ==
    [i |-> step.i,
     result |-> IF step.kind = "push" THEN Append(result, step.token)
                ELSE result]

\* tokenize, leaving the loop at cursor i: `Ok(result)` after the last
\* char, the `return Err(..)` (or the panic) of the turn otherwise
tokenize_return(str, allow_identifiers, i, result) ==
    IF ~(i < Len(str)) THEN TokOk(result)
    ELSE scan_char(str, allow_identifiers, i).res

\* tokenize, the while loop entered with the variables `i` and `result`
RECURSIVE tokenize_loop(_, _, _)
tokenize_loop(str, allow_identifiers, at) ==
    IF ~(at.i < Len(str))
       \/ scan_char(str, allow_identifiers, at.i).kind = "return"
    THEN tokenize_return(str, allow_identifiers, at.i, at.result)
    ELSE tokenize_loop(str, allow_identifiers,
                       after_turn(scan_char(str, allow_identifiers, at.i),
                                  at.result))

\* tokenizer.rs: tokenize(str, allow_identifiers)
tokenize(str, allow_identifiers) ==
    tokenize_loop(str, allow_identifiers, [i |-> 0, result |-> <<>>])

\* the sources the model draws from are made of up to MaxPieces pieces,
\* each a single char or a keyword, or are the sources of tests.rs and two
\* with a keyword next to a letter
SourcePieces ==
    {<<c>> : c \in {32, 40, 41, 38, 124, 94, 33, 61, 49, 48, 97, 116, 63,
                    65, 233}} \cup {KwTrue, KwFalse}
RECURSIVE Concat(_)
Concat(pieces) ==
    IF pieces = <<>> THEN <<>> ELSE Head(pieces) \o Concat(Tail(pieces))
\* "a & b | c", "a|?", and a keyword next to a letter: "truex", "xtrue"
TestSources ==
    {<<97, 32, 38, 32, 98, 32, 124, 32, 99>>, <<97, 124, 63>>,
     <<116, 114, 117, 101, 120>>, <<120, 116, 114, 117, 101>>}

(* ------------------------------- nodes --------------------------------- *)
\* ast.rs: enum Node
Const(b) == [kind |-> "Const", value |-> b]
Identifier(c) == [kind |-> "Identifier", ch |-> c]
SingleOp(op, operand) == [kind |-> "SingleOp", op |-> op, operand |-> operand]
DoubleOp(op, left, right) ==
    [kind |-> "DoubleOp", op |-> op, left |-> left, right |-> right]
Group(inner) == [kind |-> "Group", inner |-> inner]

(* ------------------------------ parser --------------------------------- *)
\* Result<Node, String> together with the parser's cursor after the call.
\* An Err keeps the two numbers the diagnostic is formatted from: the
\* reported position and the number of spaces in front of the caret marker.
Ok(node, pos) == [ok |-> TRUE, node |-> node, pos |-> pos]
Err(pos, spaces) == [ok |-> FALSE, pos |-> pos, spaces |-> spaces]

\* Parser::peek: tokens.get(position); position is 0-based
HasToken(toks, pos) == pos < Len(toks)
peek(toks, pos) == toks[pos + 1]

\* consume advancing the cursor at end-of-input as well
consume_unchecked(toks, pos) == pos + 1

\* Parser::consume: the cursor after the call
consume(toks, pos) == IF pos < Len(toks) THEN pos + 1 ELSE pos

\* invalid_char_error! answering with a constant instead of the diagnostic
invalid_char_error_as_const(pos) == Ok(Const(FALSE), pos)

\* invalid_char_error!(self)
invalid_char_error(pos) == Err(pos, pos)

\* String::len: the length in bytes
RECURSIVE byte_len(_)
byte_len(s) == IF s = <<>> THEN 0 ELSE len_utf8(Head(s)) + byte_len(Tail(s))

\* ast.rs: get_char_at_index(s, i).unwrap_or_else(|| ' '), the char the
\* parser's diagnostics show for position i: `i < s.len()` compares with
\* the byte length, `chars().nth(i)` is None past the last char
get_char_at_index_or_space(s, i) ==
    IF i < byte_len(s) /\ i < Len(s) THEN s[i + 1] ELSE 32

\* fold_double_op keeping `left` as it is once the right operand is parsed
fold_double_op_dropping_right(op, left, right) ==
    IF ~right.ok THEN right
    ELSE Ok(left.node, right.pos)

\* `let right = self.parse_..()?; left = Node::DoubleOp { op, left, right }`:
\* the `?` returns the operand's Err, otherwise the operands are folded
fold_double_op(op, left, right) ==
    IF ~right.ok THEN right
    ELSE Ok(DoubleOp(op, left.node, right.node), right.pos)

\* parse_not: `let right = self.parse_factor()?; return Ok(SingleOp { .. })`
wrap_single_op(op, right) ==
    IF ~right.ok THEN right
    ELSE Ok(SingleOp(op, right.node), right.pos)

\* close_group returning the Group whatever token follows
close_group_unchecked(toks, inner) ==
    IF ~inner.ok THEN inner
    ELSE Ok(Group(inner.node), consume(toks, inner.pos))

\* parse_factor, the GroupOpen arm after `let node = self.parse_eq()?`:
\* consume, and Group on a GroupClose, the diagnostic otherwise
close_group(toks, inner) ==
    IF ~inner.ok THEN inner
    ELSE IF HasToken(toks, inner.pos)
            /\ peek(toks, inner.pos).type = "GroupClose"
         THEN Ok(Group(inner.node), consume(toks, inner.pos))
         ELSE Err(consume(toks, inner.pos), consume(toks, inner.pos) - 1)

RECURSIVE parse_eq(_, _), parse_eq_loop(_, _)
RECURSIVE parse_xor(_, _), parse_xor_loop(_, _)
RECURSIVE parse_or(_, _), parse_or_loop(_, _)
RECURSIVE parse_and(_, _), parse_and_loop(_, _)
RECURSIVE parse_not(_, _), parse_factor(_, _)

\* Parser::parse_factor
parse_factor(toks, pos) ==
    IF HasToken(toks, pos)
    THEN CASE peek(toks, pos).type = "Identifier" ->
                 Ok(Identifier(peek(toks, pos).ch), consume(toks, pos))
           [] peek(toks, pos).type = "ConstTrue" ->
                 Ok(Const(TRUE), consume(toks, pos))
           [] peek(toks, pos).type = "ConstFalse" ->
                 Ok(Const(FALSE), consume(toks, pos))
           [] peek(toks, pos).type = "GroupOpen" ->
                 close_group(toks, parse_eq(toks, consume(toks, pos)))
           [] OTHER -> invalid_char_error(consume(toks, pos))
    ELSE invalid_char_error(pos)

\* Parser::parse_not
parse_not(toks, pos) ==
    IF HasToken(toks, pos) /\ peek(toks, pos).type = "Not"
    THEN wrap_single_op(peek(toks, pos),
                        parse_factor(toks, consume(toks, pos)))
    ELSE parse_factor(toks, pos)

\* parse_and_loop also folding Or tokens, at the precedence of And
RECURSIVE parse_and_loop_also_or(_, _)
parse_and_loop_also_or(toks, left) ==
    IF ~left.ok THEN left
    ELSE IF HasToken(toks, left.pos)
            /\ peek(toks, left.pos).type \in {"And", "Or"}
         THEN parse_and_loop_also_or(toks,
                 fold_double_op(peek(toks, left.pos), left,
                                parse_not(toks, consume(toks, left.pos))))
         ELSE left

\* parse_and_loop taking the whole rest of the And chain as right operand
parse_and_loop_right_leaning(toks, left) ==
    IF ~left.ok THEN left
    ELSE IF HasToken(toks, left.pos) /\ peek(toks, left.pos).type = "And"
         THEN fold_double_op(peek(toks, left.pos), left,
                             parse_and(toks, consume(toks, left.pos)))
         ELSE left

\* Parser::parse_and, the `while let Some(token) = self.peek()` loop,
\* entered with the result of the `?` on the left operand
parse_and_loop(toks, left) ==
    IF ~left.ok THEN left
    ELSE IF HasToken(toks, left.pos) /\ peek(toks, left.pos).type = "And"
         THEN parse_and_loop(toks,
                 fold_double_op(peek(toks, left.pos), left,
                                parse_not(toks, consume(toks, left.pos))))
         ELSE left

\* Parser::parse_and
parse_and(toks, pos) == parse_and_loop(toks, parse_not(toks, pos))

\* Parser::parse_or, the loop
parse_or_loop(toks, left) ==
    IF ~left.ok THEN left
    ELSE IF HasToken(toks, left.pos) /\ peek(toks, left.pos).type = "Or"
         THEN parse_or_loop(toks,
                 fold_double_op(peek(toks, left.pos), left,
                                parse_and(toks, consume(toks, left.pos))))
         ELSE left

\* Parser::parse_or
parse_or(toks, pos) == parse_or_loop(toks, parse_and(toks, pos))

\* Parser::parse_xor, the loop
parse_xor_loop(toks, left) ==
    IF ~left.ok THEN left
    ELSE IF HasToken(toks, left.pos) /\ peek(toks, left.pos).type = "Xor"
         THEN parse_xor_loop(toks,
                 fold_double_op(peek(toks, left.pos), left,
                                parse_or(toks, consume(toks, left.pos))))
         ELSE left

\* Parser::parse_xor
parse_xor(toks, pos) == parse_xor_loop(toks, parse_or(toks, pos))

\* Parser::parse_eq, the loop
parse_eq_loop(toks, left) ==
    IF ~left.ok THEN left
    ELSE IF HasToken(toks, left.pos) /\ peek(toks, left.pos).type = "Equal"
         THEN parse_eq_loop(toks,
                 fold_double_op(peek(toks, left.pos), left,
                                parse_xor(toks, consume(toks, left.pos))))
         ELSE left

\* Parser::parse_eq
parse_eq(toks, pos) == parse_eq_loop(toks, parse_xor(toks, pos))

\* Parser::parse
parse(toks, pos) == parse_eq(toks, pos)

(* ----------------------------- evaluator ------------------------------- *)
\* Hand-built ASTs (as tests.rs builds them) are enumerated through their
\* prefix form: a word of node labels, each with the number of children the
\* Node variant owns.
BinaryOps == {Token(t) : t \in {"And", "Or", "Xor", "Equal"}}
Leaves == {Const(TRUE), Const(FALSE)} \cup {Identifier(c) : c \in IdentChars}
Labels ==
    {[arity |-> 0, leaf |-> x] : x \in Leaves}
    \cup {[arity |-> 1, kind |-> k] : k \in {"SingleOp", "Group"}}
    \cup {[arity |-> 2, op |-> op] : op \in BinaryOps}

\* a word is the prefix form of exactly one tree
RECURSIVE IsPrefixForm(_, _, _)
IsPrefixForm(w, i, open) ==
    IF i > Len(w) THEN open = 0
    ELSE open > 0 /\ IsPrefixForm(w, i + 1, open - 1 + w[i].arity)

\* the Node whose prefix form starts at w[i], and the index after it
RECURSIVE NodeOfPrefix(_, _)
NodeOfPrefix(w, i) ==
    CASE w[i].arity = 0 -> [node |-> w[i].leaf, next |-> i + 1]
      [] w[i].arity = 1 ->
            LET x == NodeOfPrefix(w, i + 1)
            IN [node |-> IF w[i].kind = "Group" THEN Group(x.node)
                         ELSE SingleOp(Token("Not"), x.node),
                next |-> x.next]
      [] w[i].arity = 2 ->
            LET l == NodeOfPrefix(w, i + 1)
                r == NodeOfPrefix(w, l.next)
            IN [node |-> DoubleOp(w[i].op, l.node, r.node), next |-> r.next]

\* Vec::contains
contains(seq, c) == \E i \in 1..Len(seq) : seq[i] = c

\* pushed_children with the Group arm pushing nothing
pushed_children_no_group(node) ==
    CASE node.kind = "SingleOp" -> <<node.operand>>
      [] node.kind = "DoubleOp" -> <<node.left, node.right>>
      [] OTHER -> <<>>

\* calc_ident_bit_index, the match arms that push_back the children of a
\* Const / SingleOp / DoubleOp / Group node onto to_visit
pushed_children(node) ==
    CASE node.kind = "Const" -> <<>>
      [] node.kind = "SingleOp" -> <<node.operand>>
      [] node.kind = "DoubleOp" -> <<node.left, node.right>>
      [] node.kind = "Group" -> <<node.inner>>
      [] OTHER -> <<>>

\* calc_ident_bit_index, one turn of the walk: the node is popped from
\* the front of to_visit, an Identifier not yet contained is pushed onto
\* idents, the children of any other node onto the back of to_visit
visit(to_visit, idents) ==
    [to_visit |-> Tail(to_visit) \o pushed_children(Head(to_visit)),
     idents |-> IF Head(to_visit).kind = "Identifier"
                   /\ ~contains(idents, Head(to_visit).ch)
                THEN Append(idents, Head(to_visit).ch)
                ELSE idents]

\* calc_ident_bit_index, the `while let Some(node) = to_visit.pop_front()`
\* loop entered with the variables `to_visit` and `idents`
RECURSIVE visit_loop(_)
visit_loop(at) ==
    IF at.to_visit = <<>> THEN at.idents
    ELSE visit_loop(visit(at.to_visit, at.idents))

\* calc_ident_bit_index, the breadth-first walk collecting each identifier
\* once
collect_idents(to_visit, idents) ==
    visit_loop([to_visit |-> to_visit, idents |-> idents])

\* insertion of one element into an ascending sequence, in front of the
\* elements that are not smaller
insert_sorted(seq, c) ==
    LET smaller(d) == d < c
        not_smaller(d) == ~(d < c)
    IN SelectSeq(seq, smaller) \o <<c>> \o SelectSeq(seq, not_smaller)

\* sort that leaves the order of first appearance
sort_not_sorting(seq) == seq

\* idents.sort(), element by element: `at.sorted` holds the elements
\* taken so far in ascending order
RECURSIVE sort_loop(_)
sort_loop(at) ==
    IF at.rest = <<>> THEN at.sorted
    ELSE sort_loop([rest |-> Tail(at.rest),
                    sorted |-> insert_sorted(at.sorted, Head(at.rest))])

\* idents.sort(): ascending order of the characters
sort(seq) == sort_loop([rest |-> seq, sorted |-> <<>>])

\* calc_ident_bit_index, `for (i, c) in idents.iter().enumerate()` from
\* place i on: HashMap::insert of (c, i) puts each char at the index of
\* its last insert and leaves the other entries of the map
insert_enumerated(idents, i, map) ==
    LET inserted == {idents[j] : j \in (i + 1)..Len(idents)}
        last_insert(c) ==
            CHOOSE j \in (i + 1)..Len(idents) :
                /\ idents[j] = c
                /\ \A k \in (j + 1)..Len(idents) : idents[k] # c
    IN [c \in inserted \cup DOMAIN map |->
           IF c \in inserted THEN last_insert(c) - 1 ELSE map[c]]

\* the empty HashMap
EmptyMap == [c \in {} |-> 0]

\* Evaluator::calc_ident_bit_index
calc_ident_bit_index(root) ==
    insert_enumerated(sort(collect_idents(<<root>>, <<>>)), 0, EmptyMap)

\* the outcome of an evaluation: a bool, or the panic of evaluate_node
Val(b) == [panic |-> FALSE, val |-> b]
Panic == [panic |-> TRUE, val |-> FALSE]

\* usize `&`, bit by bit from the lowest: `at.acc` holds the bits below
\* `at.bit` that are set in both
RECURSIVE and_loop(_)
and_loop(at) ==
    IF at.x = 0 \/ at.y = 0 THEN at.acc
    ELSE and_loop([x |-> at.x \div 2, y |-> at.y \div 2, bit |-> 2 * at.bit,
                   acc |-> at.acc + at.bit * (at.x % 2) * (at.y % 2)])

\* bitwise and of a natural and an integer (usize `&`)
BitAnd(x, y) == and_loop([x |-> x, y |-> y, bit |-> 1, acc |-> 0])

\* `1 << index` in a 16-bit signed integer
ShiftLeftOne_i16(index) ==
    IF index % 16 = 15 THEN -32768 ELSE 2 ^ (index % 16)

\* `(1 << index) as usize`: the literal is an i32, so the shift is done in
\* 32-bit signed arithmetic (index 31 gives i32::MIN, and the shift amount
\* is taken modulo 32 where the build does not trap it) and the cast
\* sign-extends, which BitAnd's floor division does as well
ShiftLeftOne(index) ==
    IF index % 32 = 31 THEN -2147483647 - 1 ELSE 2 ^ (index % 32)

\* `1 << ident_count` of evaluate_iter's range: a usize shift
row_count(ident_count) == 2 ^ (ident_count % 64)

\* get_ident_bit answering whether any bit from the index upwards is set
get_ident_bit_or_higher(index_map, c, pass) ==
    IF c \in DOMAIN index_map
    THEN Val(pass \div (2 ^ index_map[c]) # 0)
    ELSE Panic

\* Evaluator::get_ident_bit; `.get(&c).unwrap()` panics on a character
\* that has no index
get_ident_bit(index_map, c, pass) ==
    IF c \in DOMAIN index_map
    THEN Val(BitAnd(pass, ShiftLeftOne(index_map[c])) # 0)
    ELSE Panic

\* apply_single_op with the Not arm returning the operand unchanged
apply_single_op_not_as_identity(op, o) ==
    IF op.type = "Not"
    THEN IF o.panic THEN Panic ELSE Val(o.val)
    ELSE Panic

\* Evaluator::evaluate_node, the SingleOp arm applied to the outcome of
\* the operand
apply_single_op(op, o) ==
    IF op.type = "Not"
    THEN IF o.panic THEN Panic ELSE Val(~o.val)
    ELSE Panic

\* apply_double_op with the Xor arm computing `||`
apply_double_op_xor_as_or(op, l, r) ==
    CASE op.type = "And" ->
            IF l.panic THEN Panic
            ELSE IF ~l.val THEN Val(FALSE) ELSE r
      [] op.type \in {"Or", "Xor"} ->
            IF l.panic THEN Panic
            ELSE IF l.val THEN Val(TRUE) ELSE r
      [] OTHER -> Panic

\* Evaluator::evaluate_node, the DoubleOp arm applied to the outcomes of
\* the operands; `&&` and `||` evaluate the right operand only when the
\* left one does not decide the result
apply_double_op(op, l, r) ==
    CASE op.type = "And" ->
            IF l.panic THEN Panic
            ELSE IF ~l.val THEN Val(FALSE) ELSE r
      [] op.type = "Or" ->
            IF l.panic THEN Panic
            ELSE IF l.val THEN Val(TRUE) ELSE r
      [] op.type = "Xor" ->
            IF l.panic \/ r.panic THEN Panic
            ELSE Val(l.val # r.val)
      [] OTHER -> Panic

\* Evaluator::evaluate_node
RECURSIVE evaluate_node(_, _, _)
evaluate_node(index_map, node, pass) ==
    CASE node.kind = "Const" -> Val(node.value)
      [] node.kind = "SingleOp" ->
            apply_single_op(node.op,
                            evaluate_node(index_map, node.operand, pass))
      [] node.kind = "DoubleOp" ->
            apply_double_op(node.op,
                            evaluate_node(index_map, node.left, pass),
                            evaluate_node(index_map, node.right, pass))
      [] node.kind = "Group" -> evaluate_node(index_map, node.inner, pass)
      [] node.kind = "Identifier" -> get_ident_bit(index_map, node.ch, pass)

\* Evaluator::evaluate
evaluate(index_map, root, pass) == evaluate_node(index_map, root, pass)

\* the orders in which a HashMap with these keys may be iterated
IterOrders(keys) ==
    {o \in [1..Cardinality(keys) -> keys] :
        \A i, j \in 1..Cardinality(keys) : i # j => o[i] # o[j]}

\* ident_states_of reading the bit at the entry's place in the iteration
\* instead of the bit at its index
ident_states_by_place(index_map, order, pass) ==
    [k \in 1..Len(order) |->
        <<order[k], BitAnd(pass, ShiftLeftOne(k - 1)) # 0>>]

\* evaluate_iter, the closure's `ident_states`: one (char, bool) per entry
\* of ident_bit_index, in the map's iteration order
ident_states_of(index_map, order, pass) ==
    [k \in 1..Len(order) |->
        <<order[k], BitAnd(pass, ShiftLeftOne(index_map[order[k]])) # 0>>]

\* pass_result evaluating under the bit indexes of the map's iteration
\* order instead of those of ident_bit_index
pass_result_by_iteration(index_map, order, root, pass) ==
    [result |-> evaluate([c \in DOMAIN index_map |->
                             (CHOOSE k \in 1..Len(order) : order[k] = c) - 1],
                         root, pass),
     ident_states |-> ident_states_of(index_map, order, pass)]

\* evaluate_iter, the closure: EvaluatorPassResult for one pass
pass_result(index_map, order, root, pass) ==
    [result |-> evaluate(index_map, root, pass),
     ident_states |-> ident_states_of(index_map, order, pass)]

(* --------------------------- state machine ----------------------------- *)
VARIABLES
    pc,               \* where the caller is in the pipeline
    src,              \* the source string handed to tokenize
    allow_identifiers,\* tokenize's flag
    tokenized,        \* what tokenize returned
    returned,         \* the Err a `?` of main.rs returned to the caller
    tokens,           \* Parser.tokens
    position,         \* Parser.position
    parsed,           \* what Parser::parse returned
    ast,              \* Evaluator.ast
    ident_bit_index,  \* Evaluator.ident_bit_index
    iter_order,       \* evaluate_iter: iteration order of the HashMap
    last,             \* the last Evaluator::evaluate call and its outcome
    range_next,       \* evaluate_iter: next pass of the range 0..(1 << n)
    range_end,        \* evaluate_iter: exclusive end of the range
    rows,             \* evaluate_iter: rows yielded so far
    calls             \* per caller sharing the Evaluator: its call in flight

vars == <<pc, src, allow_identifiers, tokenized, returned, tokens, position, parsed, ast, ident_bit_index, iter_order,
          last, range_next, range_end, rows, calls>>

NoNode == [kind |-> "None"]
NoParse == [ok |-> FALSE, pos |-> 0, spaces |-> 0]
NoCall == [pass |-> 0, result |-> Val(FALSE)]
NoTokens == [ok |-> FALSE, panic |-> FALSE]
NoReturn == [ok |-> TRUE]
\* the callers that share one `&Evaluator`
Callers == {1, 2}
Idle == [stage |-> "idle"]

Init ==
    /\ pc = "start"
    /\ src = <<>>
    /\ allow_identifiers = FALSE
    /\ tokenized = NoTokens
    /\ returned = NoReturn
    /\ tokens = <<>>
    /\ position = 0
    /\ parsed = NoParse
    /\ ast = NoNode
    /\ ident_bit_index = EmptyMap
    /\ iter_order = <<>>
    /\ last = NoCall
    /\ range_next = 0
    /\ range_end = 0
    /\ rows = <<>>
    /\ calls = [t \in Callers |-> Idle]

\* the operator in front of the k-th identifier (0-based) of a boundary
\* expression: `&` inside a group of three, `|` between such groups, `^`
\* between groups of nine
BoundaryOperator(k) ==
    IF k % 9 = 0 THEN 94 ELSE IF k % 3 = 0 THEN 124 ELSE 38

\* the expressions `a`, `a&b`, `a&b&c|d`, ... of n identifiers taken in
\* alphabetical order (starting again at `a` after `z`), and `1` for n = 0
RECURSIVE LettersSource(_)
LettersSource(n) ==
    IF n = 0 THEN <<49>>
    ELSE IF n = 1 THEN <<97>>
    ELSE LettersSource(n - 1)
            \o <<BoundaryOperator(n - 1), 97 + ((n - 1) % 26)>>

\* the identifier counts at and around the limits: none, one, all 26
\* letters, and all 26 letters with repetitions
BoundarySources == {LettersSource(n) : n \in {0, 1, 2, 25, 26, 27, 28}}

\* the masks at and around the limits of each bit
BoundaryPasses ==
    {0} \cup {2 ^ k : k \in 0..26} \cup {2 ^ k - 1 : k \in 1..27}
        \cup {2 ^ k + 2 ^ (k - 1) : k \in 1..25}

\* tokenizer.rs: tokenize(&src, allow_identifiers) on one source
TokenizeSource(s, allow) ==
    /\ src' = s
    /\ allow_identifiers' = allow
    /\ tokenized' = tokenize(s, allow)
    /\ pc' = IF tokenized'.ok THEN "tokenized"
             ELSE IF tokenized'.panic THEN "tokenize_panicked"
             ELSE "tokenize_error"
    /\ returned' = IF tokenized'.ok \/ tokenized'.panic THEN returned
                   ELSE tokenized'
    /\ UNCHANGED <<calls, tokens, position, parsed, ast, ident_bit_index, iter_order,
                   last, range_next, range_end, rows>>

\* tokenizer.rs: tokenize(&src, allow_identifiers)
Tokenize ==
    /\ pc = "start"
    /\ \E allow \in BOOLEAN :
          \/ \E s \in TestSources : TokenizeSource(s, allow)
          \/ \E n \in 0..MaxPieces :
                \E w \in [1..n -> SourcePieces] :
                   TokenizeSource(Concat(w), allow)

\* main.rs, evaluate_pass / evaluate_truth_table: tokenize(expression, true)
TokenizeBoundary ==
    /\ pc = "start"
    /\ \E s \in BoundarySources : TokenizeSource(s, TRUE)

\* main.rs: `let tokens = tokenize(..)?; Parser::new(tokens, &expr)`
ParserNewTokenized ==
    /\ pc = "tokenized"
    /\ tokens' = tokenized.tokens
    /\ position' = 0
    /\ pc' = "parser"
    /\ UNCHANGED <<calls, returned, src, allow_identifiers, tokenized, parsed, ast,
                   ident_bit_index, iter_order, last, range_next, range_end,
                   rows>>

\* Parser::new(tokens, original_src)
ParserNew ==
    /\ pc = "start"
    /\ tokens' \in TokenSeqs \cup ChainSeqs \cup TestTokenVectors
    /\ position' = 0
    /\ pc' = "parser"
    /\ UNCHANGED <<calls, returned, src, allow_identifiers, tokenized, parsed, ast,
                   ident_bit_index, iter_order, last,
                   range_next, range_end, rows>>

\* Parse going on to Evaluator::new whatever parse returned
ParseErrorIgnored ==
    /\ pc = "parser"
    /\ LET r == parse(tokens, position)
       IN /\ parsed' = r
          /\ position' = r.pos
          /\ pc' = "parsed"
          /\ returned' = returned
    /\ UNCHANGED <<calls, src, allow_identifiers, tokenized, tokens, ast,
                   ident_bit_index, iter_order, last, range_next, range_end,
                   rows>>

\* Parser::parse
Parse ==
    /\ pc = "parser"
    /\ LET r == parse(tokens, position)
       IN /\ parsed' = r
          /\ position' = r.pos
          /\ pc' = IF r.ok THEN "parsed" ELSE "parse_error"
          /\ returned' = IF r.ok THEN returned ELSE r
    /\ UNCHANGED <<calls, src, allow_identifiers, tokenized, tokens, ast,
                   ident_bit_index, iter_order, last,
                   range_next, range_end, rows>>

\* Evaluator::new(ast)
EvaluatorNew(root) ==
    /\ ast' = root
    /\ ident_bit_index' = calc_ident_bit_index(root)
    /\ pc' = "evaluator"
    /\ UNCHANGED <<calls, returned, src, allow_identifiers, tokenized, tokens, position,
                   parsed, iter_order, last, range_next,
                   range_end, rows>>

\* main.rs: `let ast = parser.parse()?; Evaluator::new(ast)`
EvaluatorNewParsed ==
    /\ pc = "parsed"
    /\ EvaluatorNew(parsed.node)

\* tests.rs: Evaluator::new on a hand-built Node
EvaluatorNewBuilt ==
    /\ pc = "start"
    /\ \E n \in 1..MaxNodes :
          \E w \in [1..n -> Labels] :
             /\ IsPrefixForm(w, 1, 1)
             /\ EvaluatorNew(NodeOfPrefix(w, 1).node)

\* Evaluator::evaluate(pass)
Evaluate(pass) ==
    /\ pc = "evaluator"
    /\ LET res == evaluate(ident_bit_index, ast, pass)
       IN /\ last' = [pass |-> pass, result |-> res]
          /\ pc' = IF res.panic THEN "panicked" ELSE "evaluated"
    /\ UNCHANGED <<calls, returned, src, allow_identifiers, tokenized, tokens, position,
                   parsed, ast, ident_bit_index, iter_order,
                   range_next, range_end, rows>>

\* EvaluateIter with the range 1..=(1 << ident_count)
EvaluateIterFromOne ==
    /\ pc = "evaluator"
    /\ range_next' = 1
    /\ range_end' = 2 ^ Cardinality(DOMAIN ident_bit_index) + 1
    /\ iter_order' \in IterOrders(DOMAIN ident_bit_index)
    /\ rows' = <<>>
    /\ pc' = "iter"
    /\ UNCHANGED <<calls, returned, src, allow_identifiers, tokenized, tokens, position,
                   parsed, ast, ident_bit_index, last>>

\* Evaluator::evaluate_iter: builds the lazy range 0..(1 << ident_count);
\* the order in which `ident_bit_index.iter()` will visit the entries is
\* the HashMap's own and is first observed here
EvaluateIter ==
    /\ pc = "evaluator"
    /\ range_next' = 0
    /\ range_end' = row_count(Cardinality(DOMAIN ident_bit_index))
    /\ iter_order' \in IterOrders(DOMAIN ident_bit_index)
    /\ rows' = <<>>
    /\ pc' = "iter"
    /\ UNCHANGED <<calls, returned, src, allow_identifiers, tokenized, tokens, position,
                   parsed, ast, ident_bit_index, last>>

\* IterNext starting the range over after its last row
IterNextStartingOver ==
    /\ pc = "iter"
    /\ IF range_next < range_end
       THEN LET row == pass_result(ident_bit_index, iter_order, ast, range_next)
            IN /\ range_next' = range_next + 1
               /\ IF row.result.panic
                  THEN /\ pc' = "iter_panicked"
                       /\ rows' = rows
                  ELSE /\ pc' = "iter"
                       /\ rows' = Append(rows, [result |-> row.result.val,
                                                ident_states |-> row.ident_states])
       ELSE /\ pc' = "iter"
            /\ range_next' = 0
            /\ rows' = <<>>
    /\ UNCHANGED <<calls, returned, src, allow_identifiers, tokenized, tokens,
                   position, parsed, ast, ident_bit_index, iter_order,
                   last, range_end>>

\* Iterator::next on evaluate_iter: the next pass of the range, mapped
IterNext ==
    /\ pc = "iter"
    /\ IF range_next < range_end
       THEN LET row == pass_result(ident_bit_index, iter_order, ast, range_next)
            IN /\ range_next' = range_next + 1
               /\ IF row.result.panic
                  THEN /\ pc' = "iter_panicked"
                       /\ rows' = rows
                  ELSE /\ pc' = "iter"
                       /\ rows' = Append(rows, [result |-> row.result.val,
                                                ident_states |-> row.ident_states])
       ELSE /\ pc' = "iter_done"
            /\ UNCHANGED <<range_next, rows>>
    /\ UNCHANGED <<calls, returned, src, allow_identifiers, tokenized, tokens, position,
                   parsed, ast, ident_bit_index, iter_order,
                   last, range_end>>

\* Evaluator::evaluate_iter up to its return: the lazy range
\* 0..(1 << ident_count) is built and no row has been pulled from it
EvaluateIterBuilt ==
    /\ pc = "evaluator"
    /\ range_next' = 0
    /\ range_end' = row_count(Cardinality(DOMAIN ident_bit_index))
    /\ pc' = "iter_built"
    /\ UNCHANGED <<calls, returned, src, allow_identifiers, tokenized, tokens,
                   position, parsed, ast, ident_bit_index, iter_order, last,
                   rows>>

\* a caller enters Evaluator::evaluate(&self, pass)
CallEvaluate(t, pass) ==
    /\ pc = "evaluator"
    /\ calls[t] = Idle
    /\ calls' = [calls EXCEPT ![t] = [stage |-> "running", pass |-> pass]]
    /\ UNCHANGED <<pc, src, allow_identifiers, tokenized, returned, tokens,
                   position, parsed, ast, ident_bit_index, iter_order, last,
                   range_next, range_end, rows>>

\* CallReturn storing the value in the Evaluator's AST for later calls
CallReturnMemoizing(t) ==
    /\ pc = "evaluator"
    /\ calls[t].stage = "running"
    /\ LET res == evaluate(ident_bit_index, ast, calls[t].pass)
       IN /\ calls' = [calls EXCEPT ![t] = [stage |-> "returned",
                                            pass |-> calls[t].pass,
                                            result |-> res]]
          /\ ast' = IF res.panic THEN ast ELSE Const(res.val)
    /\ UNCHANGED <<pc, src, allow_identifiers, tokenized, returned, tokens,
                   position, parsed, ident_bit_index, iter_order, last,
                   range_next, range_end, rows>>

\* the caller's evaluate reads `&self.ast` and `&self.ident_bit_index` and
\* returns (or panics); nothing of the Evaluator is written
CallReturn(t) ==
    /\ pc = "evaluator"
    /\ calls[t].stage = "running"
    /\ calls' = [calls EXCEPT ![t] =
                    [stage |-> "returned", pass |-> calls[t].pass,
                     result |-> evaluate(ident_bit_index, ast,
                                         calls[t].pass)]]
    /\ UNCHANGED <<pc, src, allow_identifiers, tokenized, returned, tokens,
                   position, parsed, ast, ident_bit_index, iter_order, last,
                   range_next, range_end, rows>>

\* Evaluator::get_identifiers(&self): the keys of ident_bit_index, cloned
CallGetIdentifiers(t) ==
    /\ pc = "evaluator"
    /\ calls[t] = Idle
    /\ calls' = [calls EXCEPT ![t] = [stage |-> "identifiers",
                                      keys |-> DOMAIN ident_bit_index]]
    /\ UNCHANGED <<pc, src, allow_identifiers, tokenized, returned, tokens,
                   position, parsed, ast, ident_bit_index, iter_order, last,
                   range_next, range_end, rows>>

\* the caller drops what it got and may call again
CallDone(t) ==
    /\ pc = "evaluator"
    /\ calls[t].stage \in {"returned", "identifiers"}
    /\ calls' = [calls EXCEPT ![t] = Idle]
    /\ UNCHANGED <<pc, src, allow_identifiers, tokenized, returned, tokens,
                   position, parsed, ast, ident_bit_index, iter_order, last,
                   range_next, range_end, rows>>

Next ==
    \/ Tokenize
    \/ ParserNewTokenized
    \/ ParserNew
    \/ Parse
    \/ EvaluatorNewParsed
    \/ EvaluatorNewBuilt
    \/ \E pass \in 0..MaxPass : Evaluate(pass)
    \/ EvaluateIter
    \/ IterNext

Spec == Init /\ [][Next]_vars

\* the pipeline of main.rs with the Evaluator shared by several callers
\* (`&self` methods), whose calls interleave
NextShared ==
    \/ Tokenize
    \/ ParserNewTokenized
    \/ Parse
    \/ EvaluatorNewParsed
    \/ \E t \in Callers : \E pass \in 0..MaxPass : CallEvaluate(t, pass)
    \/ \E t \in Callers : CallReturn(t)
    \/ \E t \in Callers : CallGetIdentifiers(t)
    \/ \E t \in Callers : CallDone(t)
    \/ EvaluateIter
    \/ IterNext

SpecShared == Init /\ [][NextShared]_vars

\* the pipeline of main.rs on expressions with none, one and all 26
\* identifiers, evaluated for one mask or set up for enumeration
NextBoundary ==
    \/ TokenizeBoundary
    \/ ParserNewTokenized
    \/ Parse
    \/ EvaluatorNewParsed
    \/ \E pass \in BoundaryPasses : Evaluate(pass)
    \/ EvaluateIterBuilt

SpecBoundary == Init /\ [][NextBoundary]_vars

\* evaluate_truth_table of main.rs on a source; `.collect()` pulls rows as
\* long as the iterator yields one
NextTruthTable ==
    \/ Tokenize
    \/ ParserNewTokenized
    \/ Parse
    \/ EvaluatorNewParsed
    \/ EvaluateIter
    \/ IterNext

SpecTruthTable == Init /\ [][NextTruthTable]_vars /\ WF_vars(IterNext)

(* ------------------------- reference notions --------------------------- *)
\* the identifiers occurring anywhere in a node, by structural recursion
RECURSIVE IdentSet(_)
IdentSet(node) ==
    CASE node.kind = "Identifier" -> {node.ch}
      [] node.kind = "SingleOp" -> IdentSet(node.operand)
      [] node.kind = "DoubleOp" -> IdentSet(node.left) \cup IdentSet(node.right)
      [] node.kind = "Group" -> IdentSet(node.inner)
      [] OTHER -> {}

\* 0-based rank of c in the ascending order of S
Rank(S, c) == Cardinality({d \in S : d < c})

\* bit i of the mask p
BitOf(p, i) == (p \div (2 ^ i)) % 2 = 1

\* the node with every Group replaced by its inner node
RECURSIVE StripGroups(_)
StripGroups(node) ==
    CASE node.kind = "Group" -> StripGroups(node.inner)
      [] node.kind = "SingleOp" ->
            SingleOp(node.op, StripGroups(node.operand))
      [] node.kind = "DoubleOp" ->
            DoubleOp(node.op, StripGroups(node.left), StripGroups(node.right))
      [] OTHER -> node

\* k nested SingleOp(NOT) around a node
RECURSIVE NestedNot(_, _)
NestedNot(k, node) ==
    IF k = 0 THEN node ELSE SingleOp(Token("Not"), NestedNot(k - 1, node))

\* the mask a row's ident_states encodes under the ranks of the set S
RECURSIVE EncodeStates(_, _)
EncodeStates(states, S) ==
    IF states = <<>> THEN 0
    ELSE (IF Head(states)[2] THEN 2 ^ Rank(S, Head(states)[1]) ELSE 0)
         + EncodeStates(Tail(states), S)

HasEvaluator ==
    pc \in {"evaluator", "evaluated", "panicked", "iter", "iter_panicked",
            "iter_done"}
Called == pc \in {"evaluated", "panicked"}
Iterating == pc \in {"iter", "iter_panicked", "iter_done"}
FromParser == HasEvaluator /\ parsed.ok /\ ast = parsed.node

A == Identifier(97)
B == Identifier(98)
C == Identifier(99)

\* Parser::parse has returned
Parsed == pc \in {"parsed", "parse_error"}

\* the token vector is an unparenthesized operand/operator chain
IsChain(toks) ==
    /\ Len(toks) % 2 = 1
    /\ \A i \in 1..Len(toks) :
          IF i % 2 = 1 THEN toks[i].type = "Identifier"
          ELSE toks[i] \in BinaryTokens

\* binding strength of the binary operators, weakest first
Precedence(type) ==
    CASE type = "Equal" -> 0
      [] type = "Xor" -> 1
      [] type = "Or" -> 2
      [] type = "And" -> 3

\* the operator positions of a chain that bind weakest
WeakestOps(toks) ==
    {i \in 1..Len(toks) :
        /\ i % 2 = 0
        /\ \A j \in 1..Len(toks) :
              j % 2 = 0 =>
                 Precedence(toks[i].type) <= Precedence(toks[j].type)}

\* the tree of a chain by operator precedence: split at the last of the
\* weakest operators
RECURSIVE ChainTree(_)
ChainTree(toks) ==
    IF Len(toks) = 1 THEN Identifier(toks[1].ch)
    ELSE LET k == CHOOSE i \in WeakestOps(toks) :
                     \A j \in WeakestOps(toks) : j <= i
         IN DoubleOp(toks[k], ChainTree(SubSeq(toks, 1, k - 1)),
                     ChainTree(SubSeq(toks, k + 1, Len(toks))))

\* the left-leaning tree of the first k operands of a chain
RECURSIVE LeftLeaning(_, _)
LeftLeaning(toks, k) ==
    IF k = 1 THEN Identifier(toks[1].ch)
    ELSE DoubleOp(toks[2 * k - 2], LeftLeaning(toks, k - 1),
                  Identifier(toks[2 * k - 1].ch))

\* What a left-to-right reading of a token vector runs into first.  The
\* reader expects an operand, a factor (after a NOT) or an operator, and
\* counts the groups it is inside of:
\*   "missing_operand"  an operand or factor is expected and the input ends
\*                      or a binary operator or GROUP_CLOSE comes
\*   "not_after_not"    a NOT comes where a factor is expected
\*   "unclosed"         inside a group, after an operand, the input ends or
\*                      a token other than an operator or GROUP_CLOSE comes
\*   "done"             outside any group, after an operand, the input ends
\*                      or a token other than a binary operator comes
RECURSIVE Reading(_, _, _, _)
Reading(toks, i, expect, depth) ==
    IF expect \in {"operand", "factor"}
    THEN IF i > Len(toks) \/ toks[i] \in BinaryTokens
            \/ toks[i].type = "GroupClose"
         THEN "missing_operand"
         ELSE IF toks[i].type = "Not"
         THEN IF expect = "factor" THEN "not_after_not"
              ELSE Reading(toks, i + 1, "factor", depth)
         ELSE IF toks[i].type = "GroupOpen"
         THEN Reading(toks, i + 1, "operand", depth + 1)
         ELSE Reading(toks, i + 1, "operator", depth)
    ELSE IF i <= Len(toks) /\ toks[i] \in BinaryTokens
         THEN Reading(toks, i + 1, "operand", depth)
         ELSE IF depth = 0 THEN "done"
         ELSE IF i <= Len(toks) /\ toks[i].type = "GroupClose"
         THEN Reading(toks, i + 1, "operator", depth - 1)
         ELSE "unclosed"

\* number of Group nodes in a node
RECURSIVE GroupCount(_)
GroupCount(node) ==
    CASE node.kind = "Group" -> 1 + GroupCount(node.inner)
      [] node.kind = "SingleOp" -> GroupCount(node.operand)
      [] node.kind = "DoubleOp" ->
            GroupCount(node.left) + GroupCount(node.right)
      [] OTHER -> 0

\* number of tokens of the given type among the first n
TypeCount(toks, n, type) ==
    Cardinality({i \in 1..n : toks[i].type = type})

\* tokenize has returned or panicked
Tokenized == pc \in {"tokenized", "tokenize_error", "tokenize_panicked"}

\* a keyword is written in s from the 1-based place q on
KeywordAt(s, q, kw) ==
    /\ q + Len(kw) - 1 <= Len(s)
    /\ \A j \in 1..Len(kw) : s[q + j - 1] = kw[j]
KeywordLenAt(s, q) ==
    IF KeywordAt(s, q, KwTrue) THEN Len(KwTrue)
    ELSE IF KeywordAt(s, q, KwFalse) THEN Len(KwFalse)
    ELSE 0

\* a logical unit of s begins at place p: the place holds no space and is
\* not a later char of a keyword (no keyword begins inside another one)
UnitStartsAt(s, p) ==
    /\ s[p] # 32
    /\ ~\E q \in 1..(p - 1) : p < q + KeywordLenAt(s, q)
UnitStarts(s) == {p \in 1..Len(s) : UnitStartsAt(s, p)}

\* the token a unit stands for
UnitToken(s, p) ==
    CASE KeywordAt(s, p, KwTrue) -> Token("ConstTrue")
      [] KeywordAt(s, p, KwFalse) -> Token("ConstFalse")
      [] s[p] = 40 -> Token("GroupOpen")
      [] s[p] = 41 -> Token("GroupClose")
      [] s[p] = 38 -> Token("And")
      [] s[p] = 124 -> Token("Or")
      [] s[p] = 94 -> Token("Xor")
      [] s[p] = 33 -> Token("Not")
      [] s[p] = 61 -> Token("Equal")
      [] s[p] = 49 -> Token("ConstTrue")
      [] s[p] = 48 -> Token("ConstFalse")
      [] OTHER -> TokIdentifier(s[p])

\* toks are the tokens of the units of s, in source order: as many as
\* there are units, and the unit with k units before it gives toks[k + 1]
AreTokensOfUnits(toks, s) ==
    /\ Len(toks) = Cardinality(UnitStarts(s))
    /\ \A p \in 1..Len(s) :
          UnitStartsAt(s, p) =>
             LET k == Cardinality({q \in 1..(p - 1) : UnitStartsAt(s, q)})
             IN k < Len(toks) /\ toks[k + 1] = UnitToken(s, p)

\* the chars every tokenize accepts, and the lowercase letters
PlainChars == {32, 40, 41, 38, 124, 94, 33, 61, 49, 48}
LowerCase == 97..122

\* the unit beginning at place p of s is a char tokenize has no token for
InvalidUnitAt(s, allow, p) ==
    /\ UnitStartsAt(s, p)
    /\ KeywordLenAt(s, p) = 0
    /\ s[p] \notin PlainChars
    /\ ~(allow /\ s[p] \in LowerCase)

\* the zero-based char index of the first char tokenize has no token for
OffendingIndex(s, allow) ==
    (CHOOSE p \in 1..Len(s) :
        /\ InvalidUnitAt(s, allow, p)
        /\ \A q \in 1..(p - 1) : ~InvalidUnitAt(s, allow, q)) - 1

\* the 1-based index of the token at which Reading runs into a missing
\* operand, a NOT after a NOT or an unclosed group (Len(toks) + 1 at the
\* end of the input); 0 when it is done without running into any
RECURSIVE OffendingToken(_, _, _, _)
OffendingToken(toks, i, expect, depth) ==
    IF expect \in {"operand", "factor"}
    THEN IF i > Len(toks) \/ toks[i] \in BinaryTokens
            \/ toks[i].type = "GroupClose"
         THEN i
         ELSE IF toks[i].type = "Not"
         THEN IF expect = "factor" THEN i
              ELSE OffendingToken(toks, i + 1, "factor", depth)
         ELSE IF toks[i].type = "GroupOpen"
         THEN OffendingToken(toks, i + 1, "operand", depth + 1)
         ELSE OffendingToken(toks, i + 1, "operator", depth)
    ELSE IF i <= Len(toks) /\ toks[i] \in BinaryTokens
         THEN OffendingToken(toks, i + 1, "operand", depth)
         ELSE IF depth = 0 THEN 0
         ELSE IF i <= Len(toks) /\ toks[i].type = "GroupClose"
         THEN OffendingToken(toks, i + 1, "operator", depth - 1)
         ELSE i

\* the zero-based char offset in s of its j-th unit, the end of s when s
\* has fewer units
UnitOffset(s, j) ==
    IF j > Cardinality(UnitStarts(s)) THEN Len(s)
    ELSE (CHOOSE p \in UnitStarts(s) :
             Cardinality({q \in UnitStarts(s) : q < p}) = j - 1) - 1

(* ------------------------------- claims -------------------------------- *)

\* C1: evaluate on a DoubleOp whose op is EQUAL returns true exactly when
\* its evaluated left and right operands are equal; for `a=b` the results
\* for pass 0, 1, 2, 3 are true, false, false, true.
C1_EqualIsXnor ==
    (Called /\ ast.kind = "DoubleOp" /\ ast.op.type = "Equal") =>
        LET l == evaluate_node(ident_bit_index, ast.left, last.pass)
            r == evaluate_node(ident_bit_index, ast.right, last.pass)
        IN /\ (~l.panic /\ ~r.panic) => last.result = Val(l.val = r.val)
           /\ ast = DoubleOp(Token("Equal"), A, B) =>
                 last.result = Val(last.pass % 4 \in {0, 3})

\* C2: parse returns Ok only when the entire token sequence has been
\* consumed; tokens left over after a complete expression are an error.
C2_TrailingTokensRejected ==
    pc = "parsed" => position = Len(tokens)

\* C3: a run of k >= 1 NOT tokens in front of an identifier or constant
\* parses to k nested SingleOp(NOT) nodes; `!!a` gives
\* SingleOp{NOT, SingleOp{NOT, Identifier a}}.
C3_NotComposes ==
    \A k \in 1..MaxTokens :
        (/\ pc \in {"parsed", "parse_error"}
         /\ Len(tokens) = k + 1
         /\ \A i \in 1..k : tokens[i].type = "Not"
         /\ tokens[k + 1].type \in {"Identifier", "ConstTrue", "ConstFalse"})
        => /\ parsed.ok
           /\ parsed.node =
                 NestedNot(k, parse_factor(<<tokens[k + 1]>>, 0).node)

\* C4: on an AST returned by a successful parse, evaluate returns a boolean
\* for every pass and never reaches the 'Invalid operator' panic.
C4_NoPanicOnParsedAst ==
    FromParser =>
        /\ pc \notin {"panicked", "iter_panicked"}
        /\ Called => ~last.result.panic

\* C5: once evaluate_iter has stopped, it has yielded exactly 2^n rows for
\* the n distinct identifiers of the AST; for n = 0 exactly one row, whose
\* result is the constant value of the expression.
C5_RowCount ==
    pc \in {"iter_done", "iter_panicked"} =>
        /\ Len(rows) = 2 ^ Cardinality(IdentSet(ast))
        /\ IdentSet(ast) = {} => Len(rows) = 1

\* C6: evaluate_iter produces its rows for pass = 0, 1, ... in ascending
\* order with no pass skipped or repeated: the k-th row (0-based) has the
\* result of evaluate(k), and a finished enumeration has covered every pass
\* up to 2^n - 1.
C6_RowsAscending ==
    Iterating =>
        /\ \A k \in 1..Len(rows) :
              evaluate(ident_bit_index, ast, k - 1) = Val(rows[k].result)
        /\ Len(rows) <= 2 ^ Cardinality(IdentSet(ast))
        /\ pc = "iter" => range_next = Len(rows)
        /\ pc = "iter_done" => Len(rows) = 2 ^ Cardinality(IdentSet(ast))

C6_Witness ==
    /\ pc = "iter_done"
    /\ Len(rows) = 8
    /\ ~rows[1].result
    /\ rows[2].result
    /\ ~rows[6].result

\* C7: the identifier index maps each distinct identifier of the AST (under
\* SingleOp, DoubleOp and Group nodes alike) to its 0-based rank in ascending
\* character order; it is a function of the identifier set alone and a
\* bijection onto 0..n-1.
C7_CanonicalIndex ==
    HasEvaluator =>
        /\ DOMAIN ident_bit_index = IdentSet(ast)
        /\ \A c \in IdentSet(ast) :
              ident_bit_index[c] = Rank(IdentSet(ast), c)
        /\ {ident_bit_index[c] : c \in DOMAIN ident_bit_index}
              = 0..(Cardinality(IdentSet(ast)) - 1)
        /\ \A c, d \in DOMAIN ident_bit_index :
              c # d => ident_bit_index[c] # ident_bit_index[d]

C7_Witness ==
    /\ pc = "evaluator"
    /\ ast = DoubleOp(Token("Or"), C, Group(SingleOp(Token("Not"), A)))
    /\ collect_idents(<<ast>>, <<>>) = <<99, 97>>
    /\ ident_bit_index[97] = 0
    /\ ident_bit_index[99] = 1

\* C8: every row produced for mask `pass` carries exactly one ident_states
\* entry per distinct identifier, the entry of c is true iff the bit of
\* `pass` at c's canonical index is 1, and re-encoding the entries through
\* the canonical index gives back `pass`.
C8_RowDecodesPass ==
    pc \in {"iter_done", "iter_panicked"} =>
        \A k \in 1..Len(rows) :
            LET st == rows[k].ident_states
                S == IdentSet(ast)
            IN /\ Len(st) = Cardinality(S)
               /\ {st[j][1] : j \in 1..Len(st)} = S
               /\ \A j \in 1..Len(st) :
                     st[j][2] = BitOf(k - 1, Rank(S, st[j][1]))
               /\ EncodeStates(st, S) = k - 1

C8_Witness ==
    /\ pc = "iter_done"
    /\ iter_order = <<99, 97, 98>>
    /\ Len(rows) = 8
    /\ rows[6].ident_states = <<<<99, TRUE>>, <<97, TRUE>>, <<98, FALSE>>>>

\* C9: grouping is evaluation-transparent: removing the Group nodes of an
\* AST changes neither the identifier index, nor the outcome of evaluate
\* for any pass, nor any truth-table row.
C9_GroupTransparent ==
    HasEvaluator =>
        LET plain == StripGroups(ast)
        IN /\ pc = "evaluator" =>
                 calc_ident_bit_index(plain) = ident_bit_index
           /\ Called =>
                 evaluate(calc_ident_bit_index(plain), plain, last.pass)
                    = last.result
           /\ pc \in {"iter_done", "iter_panicked"} =>
                 \A k \in 1..Len(rows) :
                    pass_result(ident_bit_index, iter_order, plain, k - 1)
                       = [result |-> Val(rows[k].result),
                          ident_states |-> rows[k].ident_states]

C9_Witness ==
    /\ pc = "evaluated"
    /\ ast = Group(DoubleOp(Token("And"), A, B))
    /\ last = [pass |-> 3, result |-> Val(TRUE)]

\* the boolean the claim gives for a binary operator applied to two bools
BinaryTruth(type, l, r) ==
    CASE type = "And" -> l /\ r
      [] type = "Or" -> l \/ r
      [] type = "Xor" -> l # r
      [] type = "Equal" -> l = r

\* C10: evaluate on a DoubleOp whose op is AND, OR or XOR returns the
\* conjunction, disjunction or exclusive-or of its evaluated operands, in a
\* single evaluate call and in every truth-table row; for `a&b`, `a|b`,
\* `a^b` the results for pass 0,1,2,3 are (F,F,F,T), (F,T,T,T), (F,T,T,F).
C10_AndOrXor ==
    (HasEvaluator /\ ast.kind = "DoubleOp"
                  /\ ast.op.type \in {"And", "Or", "Xor"}) =>
        /\ Called =>
              LET l == evaluate_node(ident_bit_index, ast.left, last.pass)
                  r == evaluate_node(ident_bit_index, ast.right, last.pass)
              IN /\ (~l.panic /\ ~r.panic) =>
                       last.result =
                          Val(BinaryTruth(ast.op.type, l.val, r.val))
                 /\ (ast.left = A /\ ast.right = B) =>
                       last.result =
                          Val(CASE ast.op.type = "And" -> last.pass % 4 = 3
                                [] ast.op.type = "Or" -> last.pass % 4 # 0
                                [] ast.op.type = "Xor" ->
                                      last.pass % 4 \in {1, 2})
        /\ pc \in {"iter_done", "iter_panicked"} =>
           \A k \in 1..Len(rows) :
              LET l == evaluate_node(ident_bit_index, ast.left, k - 1)
                  r == evaluate_node(ident_bit_index, ast.right, k - 1)
              IN (~l.panic /\ ~r.panic) =>
                    rows[k].result =
                       BinaryTruth(ast.op.type, l.val, r.val)

C10_Witness ==
    /\ pc = "evaluated"
    /\ ast = DoubleOp(Token("Xor"), A, B)
    /\ last = [pass |-> 3, result |-> Val(FALSE)]

\* C11: for every pass, evaluate on a SingleOp whose op is NOT returns the
\* negation of its evaluated operand, in a single evaluate call and in every
\* truth-table row; `!a` is true at pass 0 and false at pass 1.
C11_NotNegates ==
    (HasEvaluator /\ ast.kind = "SingleOp" /\ ast.op.type = "Not") =>
        /\ Called =>
              LET o == evaluate_node(ident_bit_index, ast.operand, last.pass)
              IN /\ ~o.panic => last.result = Val(~o.val)
                 /\ ast.operand = A =>
                       last.result = Val(last.pass % 2 = 0)
        /\ pc \in {"iter_done", "iter_panicked"} =>
           \A k \in 1..Len(rows) :
              LET o == evaluate_node(ident_bit_index, ast.operand, k - 1)
              IN ~o.panic => rows[k].result = ~o.val

C11_Witness ==
    /\ pc = "evaluated"
    /\ ast = SingleOp(Token("Not"), A)
    /\ last = [pass |-> 1, result |-> Val(FALSE)]

\* C12: the parser applies the precedence EQUAL < XOR < OR < AND: an
\* unparenthesized chain of identifiers and binary operators parses to the
\* tree whose root is the last of its weakest operators, whatever the
\* textual order; `a|b&c` and `a&b|c` have OR at the root, `a^b|c` has XOR
\* at the root with OR(b,c) as right child, `a=b^c` has EQUAL at the root.
C12_Precedence ==
    (Parsed /\ IsChain(tokens) /\ Len(tokens) >= 3) =>
        /\ parsed.ok
        /\ parsed.node = ChainTree(tokens)
        /\ \A i \in 1..Len(tokens) :
              i % 2 = 0 =>
                 Precedence(parsed.node.op.type)
                    <= Precedence(tokens[i].type)

C12_Witness ==
    /\ pc = "parsed"
    /\ tokens = <<TokIdentifier(97), Token("Xor"), TokIdentifier(98),
                  Token("Or"), TokIdentifier(99)>>
    /\ parsed.node = DoubleOp(Token("Xor"), A, DoubleOp(Token("Or"), B, C))

\* C13: binary operators are left-associative: a chain of one and the same
\* binary operator parses to the left-leaning tree ((x1 op x2) op x3) ...;
\* a, AND, b parses to DoubleOp{AND, a, b} and `a&b&c` to
\* DoubleOp{AND, DoubleOp{AND, a, b}, c}.
C13_LeftAssociative ==
    (Parsed /\ IsChain(tokens) /\ Len(tokens) >= 3
            /\ \A i \in 1..Len(tokens) : i % 2 = 0 => tokens[i] = tokens[2]) =>
        /\ parsed.ok
        /\ parsed.node = LeftLeaning(tokens, (Len(tokens) + 1) \div 2)
        /\ parsed.pos = Len(tokens)

C13_Witness ==
    /\ pc = "parsed"
    /\ tokens = <<TokIdentifier(97), Token("And"), TokIdentifier(98),
                  Token("And"), TokIdentifier(99)>>
    /\ parsed.node = DoubleOp(Token("And"), DoubleOp(Token("And"), A, B), C)

\* C14: whenever the parser needs an operand and the next token is
\* end-of-input, a binary operator or GROUP_CLOSE, Parser.parse returns an
\* error; this covers the empty token vector, `a &` and `a & & b`.
C14_MissingOperandIsError ==
    (Parsed /\ Reading(tokens, 1, "operand", 0) = "missing_operand") =>
        ~parsed.ok

C14_Witness ==
    /\ pc = "parse_error"
    /\ tokens = <<TokIdentifier(97), Token("And"), Token("And"),
                  TokIdentifier(98)>>
    /\ ~parsed.ok

\* C15: after a GROUP_OPEN and its inner expression, Parser.parse succeeds
\* with a Group node only if the next token is GROUP_CLOSE: when the input
\* ends or another token follows (`(a & b`) it returns an error, and a
\* returned AST has one Group per GROUP_OPEN and per GROUP_CLOSE consumed.
C15_GroupMustClose ==
    Parsed =>
        /\ Reading(tokens, 1, "operand", 0) = "unclosed" => ~parsed.ok
        /\ parsed.ok =>
              /\ GroupCount(parsed.node)
                    = TypeCount(tokens, parsed.pos, "GroupOpen")
              /\ GroupCount(parsed.node)
                    = TypeCount(tokens, parsed.pos, "GroupClose")

C15_Witness ==
    /\ pc = "parse_error"
    /\ tokens = <<Token("GroupOpen"), TokIdentifier(97), Token("And"),
                  TokIdentifier(98)>>
    /\ ~parsed.ok

\* C16: tokenize skips every space without emitting a token and emits the
\* remaining logical units as tokens in source order, one token per unit,
\* the single chars ( ) & | ^ ! = 1 0 as GROUP_OPEN, GROUP_CLOSE, AND, OR,
\* XOR, NOT, EQUAL, CONST_TRUE, CONST_FALSE; a source of spaces, these
\* chars and (identifiers allowed) lowercase letters is always tokenized;
\* `a & b | c` with identifiers allowed yields exactly the 5 tokens
\* Identifier(a), AND, Identifier(b), OR, Identifier(c).
C16_UnitsInOrder ==
    Tokenized =>
        /\ tokenized.ok => AreTokensOfUnits(tokenized.tokens, src)
        /\ (\A p \in 1..Len(src) :
               \/ src[p] \in PlainChars
               \/ allow_identifiers /\ src[p] \in LowerCase) => tokenized.ok

C16_Witness ==
    /\ pc = "tokenized"
    /\ src = <<97, 32, 38, 32, 98, 32, 124, 32, 99>>
    /\ allow_identifiers
    /\ tokenized.tokens = <<TokIdentifier(97), Token("And"), TokIdentifier(98),
                            Token("Or"), TokIdentifier(99)>>

\* C17: tokenize returns Err, with no token list, exactly when scanning
\* reaches a char that is not a space, not one of ( ) & | ^ ! = 1 0, not the
\* start of a `true`/`false` keyword and not a lowercase letter while
\* allow_identifiers is true; with allow_identifiers false no Identifier
\* token is ever returned.
C17_ErrExactlyOnInvalidChar ==
    Tokenized =>
        /\ pc = "tokenize_error"
              <=> \E p \in 1..Len(src) :
                     InvalidUnitAt(src, allow_identifiers, p)
        /\ (tokenized.ok /\ ~allow_identifiers) =>
              \A k \in 1..Len(tokenized.tokens) :
                 tokenized.tokens[k].type # "Identifier"

C19_TokenizePosIsIndex ==
    pc = "tokenize_error" =>
        /\ tokenized.pos = OffendingIndex(src, allow_identifiers)
        /\ tokenized.spaces = tokenized.pos

\* C20: every error returned by Parser.parse (unexpected token,
\* end-of-input, unterminated group) has exactly n spaces in front of `^^^`,
\* n being the position reported after `at pos`.
C20_ParseCaretAtPos ==
    pc = "parse_error" => parsed.spaces = parsed.pos

\* C21: lex and parse errors are terminal and propagate unchanged: after a
\* tokenize error the parser and the evaluator are never run, after a parse
\* error there is no AST and no Evaluator, no step leaves either state, and
\* the caller holds exactly the Err the failing stage produced; the parser
\* runs only on an Ok of tokenize and the Evaluator only on an Ok of parse.
C21_NothingRunsAfterError ==
    /\ pc = "tokenize_error" =>
          /\ ~tokenized.ok /\ returned = tokenized
          /\ tokens = <<>> /\ position = 0 /\ parsed = NoParse
    /\ pc = "parse_error" =>
          /\ ~parsed.ok /\ returned = parsed
          /\ "node" \notin DOMAIN parsed
    /\ pc \in {"tokenize_error", "tokenize_panicked", "parse_error"} =>
          /\ ast = NoNode /\ ident_bit_index = EmptyMap
          /\ last = NoCall /\ rows = <<>>
    /\ pc \in {"tokenized", "parser"} =>
          tokenized = NoTokens \/ tokenized.ok
    /\ (pc = "parsed" \/ (HasEvaluator /\ parsed # NoParse)) => parsed.ok
    /\ returned # NoReturn => pc \in {"tokenize_error", "parse_error"}

\* C21, the step part: no step leaves a state in which a stage has failed
C21_ErrorsAreTerminal ==
    [][pc \notin {"tokenize_error", "tokenize_panicked", "parse_error"}]_vars

\* C21: in every state nothing has run after a failed stage and the caller
\* holds that stage's Err, and the failure states are terminal
C21_ErrorsPropagate ==
    []C21_NothingRunsAfterError /\ C21_ErrorsAreTerminal

C21_Witness ==
    /\ pc = "parse_error"
    /\ tokenized.ok
    /\ tokens = tokenized.tokens
    /\ Len(tokens) = 2
    /\ returned = parsed

\* C22: when the scanner is at a char that is not a space, operator or
\* digit and the rest of the source starts with `true` (`false`), tokenize
\* emits exactly one CONST_TRUE (CONST_FALSE) and resumes 4 (5) chars
\* later, without a word-boundary check and before identifier recognition:
\* for every keyword the scanner reaches, tokenize does not stop there, an
\* Ok holds the constant at the keyword's place among the units followed by
\* the tokens of the units after the keyword, and an Err is about a char
\* after the keyword.
C22_KeywordLookahead ==
    Tokenized =>
        \A p \in 1..Len(src) :
           (/\ UnitStartsAt(src, p)
            /\ KeywordLenAt(src, p) > 0
            /\ \A q \in 1..(p - 1) :
                  ~InvalidUnitAt(src, allow_identifiers, q)) =>
              LET k == Cardinality({q \in 1..(p - 1) : UnitStartsAt(src, q)})
                  after == p + KeywordLenAt(src, p)
              IN /\ ~tokenized.panic
                 /\ tokenized.ok =>
                       /\ Len(tokenized.tokens) = k + 1 +
                             Cardinality({q \in after..Len(src) :
                                             src[q] # 32 /\ UnitStartsAt(src, q)})
                       /\ tokenized.tokens[k + 1] =
                             IF KeywordAt(src, p, KwTrue)
                             THEN Token("ConstTrue") ELSE Token("ConstFalse")
                 /\ pc = "tokenize_error" => tokenized.spaces >= after - 1

\* C23: the position of a parser diagnostic is a char offset into the
\* original source: it and the char shown after `Invalid character`
\* identify the source char of the offending token (the end of the source
\* and the placeholder ' ' at end-of-input), not the token's index.
C23_ParsePosIsCharOffset ==
    (pc = "parse_error" /\ tokenized.ok) =>
        LET j == OffendingToken(tokens, 1, "operand", 0)
        IN /\ parsed.pos = UnitOffset(src, j)
           /\ get_char_at_index_or_space(src, parsed.pos)
                 = IF j > Len(tokens) THEN 32
                   ELSE src[UnitOffset(src, j) + 1]

\* C24, the state part: whatever the other caller is doing, a returned
\* evaluate call holds the result (value or panic) that evaluate gives alone
\* on a fresh Evaluator of the parsed AST, get_identifiers holds that
\* Evaluator's keys, and the rows of evaluate_iter are the standalone results
C24_CallsAsAlone ==
    HasEvaluator =>
        LET alone == calc_ident_bit_index(parsed.node)
        IN /\ \A t \in Callers :
                 /\ calls[t].stage = "returned" =>
                       calls[t].result =
                          evaluate(alone, parsed.node, calls[t].pass)
                 /\ calls[t].stage = "identifiers" =>
                       calls[t].keys = DOMAIN alone
           /\ \A k \in 1..Len(rows) :
                 rows[k].result = evaluate(alone, parsed.node, k - 1).val

\* C24, the step part: once the Evaluator is built no call writes its AST
\* or its identifier index
C24_EvaluatorNeverWritten ==
    [][HasEvaluator => (ast' = ast /\ ident_bit_index' = ident_bit_index)]_vars

\* C24: evaluate writes no shared state: interleaved calls on one Evaluator
\* return what they return alone, and the AST and the identifier index are
\* unchanged by evaluate, evaluate_iter and get_identifiers
C24_NoSharedState ==
    []C24_CallsAsAlone /\ C24_EvaluatorNeverWritten

C24_Witness ==
    /\ pc = "evaluator"
    /\ calls[1].stage = "returned"
    /\ calls[2].stage = "running"
    /\ calls[1].pass # calls[2].pass
    /\ ~calls[1].result.panic
    /\ evaluate(ident_bit_index, ast, calls[2].pass) # calls[1].result

\* the number of identifiers written in a boundary expression
BoundaryCount == IF src = <<49>> THEN 0 ELSE (Len(src) + 1) \div 2

\* the value of the boundary expression of n identifiers under a mask,
\* read off the expression: the k-th identifier written is the letter
\* k mod 26, whose bit is bit k mod 26; three identifiers joined by `&`
\* make a group, three groups joined by `|` a block, and the blocks are
\* joined by `^`
BoundaryGroup(g, n, pass) ==
    \A k \in (3 * g)..(3 * g + 2) : k < n => BitOf(pass, k % 26)
BoundaryBlock(h, n, pass) ==
    \E g \in (3 * h)..(3 * h + 2) : 3 * g < n /\ BoundaryGroup(g, n, pass)
BoundaryValue(n, pass) ==
    IF n = 0 THEN TRUE
    ELSE Cardinality({h \in 0..((n - 1) \div 9) :
                         BoundaryBlock(h, n, pass)}) % 2 = 1

\* C25: for the expressions with 0, 1, 2, 25 and 26 distinct identifiers
\* (and with all 26 letters and repetitions) the index holds each letter at
\* its place in the alphabet, at most 25; the mask `1 << index` is the
\* exact positive power of two; the range of evaluate_iter ends at 2^n;
\* every identifier's bit is the bit of `pass` at its place, and evaluate
\* returns the value of the expression under those bits
C25_BoundaryCorrect ==
    pc \in {"evaluator", "evaluated", "panicked", "iter_built"} =>
        LET n == IF BoundaryCount < 26 THEN BoundaryCount ELSE 26
        IN /\ DOMAIN ident_bit_index = {97 + k : k \in 0..(n - 1)}
           /\ \A c \in DOMAIN ident_bit_index :
                 /\ ident_bit_index[c] = c - 97
                 /\ ident_bit_index[c] <= 25
                 /\ ShiftLeftOne(ident_bit_index[c]) = 2 ^ (c - 97)
                 /\ ShiftLeftOne(ident_bit_index[c]) > 0
           /\ pc = "iter_built" =>
                 range_end = 2 ^ n /\ range_end > 0 /\ range_next = 0
           /\ pc # "panicked"
           /\ pc = "evaluated" =>
                 /\ last.result = Val(BoundaryValue(BoundaryCount, last.pass))
                 /\ \A c \in DOMAIN ident_bit_index :
                       get_ident_bit(ident_bit_index, c, last.pass)
                          = Val(BitOf(last.pass, c - 97))

C25_Witness ==
    /\ pc = "evaluated"
    /\ Cardinality(DOMAIN ident_bit_index) = 26
    /\ BoundaryCount = 26
    /\ last.pass = 2 ^ 25 + 2 ^ 24
    /\ last.result = Val(TRUE)
    /\ get_ident_bit(ident_bit_index, 122, last.pass) = Val(TRUE)
    /\ get_ident_bit(ident_bit_index, 97, last.pass) = Val(FALSE)

\* C26, the tokenizer: at every cursor position of the source a turn of
\* the loop either returns or leaves the cursor further on, within the
\* source
C26_CursorAdvances ==
    pc \in {"tokenized", "tokenize_error", "tokenize_panicked"} =>
        \A i \in 0..(Len(src) - 1) :
            LET step == scan_char(src, allow_identifiers, i)
            IN step.kind # "return" => (step.i > i /\ step.i <= Len(src))

\* a parse function's result from position p: the cursor has not moved
\* back nor past the end, and an Ok has consumed at least one token
Consumes(r, p) ==
    /\ p <= r.pos
    /\ r.pos <= Len(tokens)
    /\ r.ok => r.pos > p

\* C26, the parser: from every position each parse function (the operand
\* of every loop turn and every recursive call are such calls) returns Ok
\* having consumed a token or returns Err, within the tokens
C26_ParserConsumes ==
    pc \in {"parsed", "parse_error"} =>
        /\ position = parsed.pos
        /\ position <= Len(tokens)
        /\ \A p \in 0..Len(tokens) :
              /\ Consumes(parse_factor(tokens, p), p)
              /\ Consumes(parse_not(tokens, p), p)
              /\ Consumes(parse_and(tokens, p), p)
              /\ Consumes(parse_or(tokens, p), p)
              /\ Consumes(parse_xor(tokens, p), p)
              /\ Consumes(parse_eq(tokens, p), p)

\* C26, the enumeration: the cursor of the range is within it, and every
\* Iterator::next moves it on by one or ends the enumeration at its end
C26_RangeWithin == Iterating => range_next <= range_end
C26_RangeAdvances ==
    [][pc = "iter" =>
          \/ range_next < range_end /\ range_next' = range_next + 1
          \/ range_next = range_end /\ pc' = "iter_done"]_vars

\* evaluate_iter has ended: after its last row, or in evaluate's panic
C26_Finished == pc \in {"iter_panicked", "iter_done"}

\* C26: every stage terminates: the tokenizer's cursor strictly increases,
\* every parse call consumes a token or fails, the cursor of evaluate_iter
\* moves on by one per row, and every enumeration that is collected ends
C26_EveryStageTerminates ==
    /\ [](C26_CursorAdvances /\ C26_ParserConsumes /\ C26_RangeWithin)
    /\ C26_RangeAdvances
    /\ (pc = "iter") ~> C26_Finished

C26_Witness ==
    /\ pc = "iter_done"
    /\ Len(src) = 9
    /\ Len(tokens) = 5
    /\ position = 5
    /\ Len(rows) = 8
    /\ range_next = range_end

\* every operator node of the tree holds an operator of its own arity
RECURSIVE OperatorsFit(_)
OperatorsFit(node) ==
    CASE node.kind = "SingleOp" ->
            node.op.type = "Not" /\ OperatorsFit(node.operand)
      [] node.kind = "DoubleOp" ->
            /\ node.op.type \in {"And", "Or", "Xor", "Equal"}
            /\ OperatorsFit(node.left)
            /\ OperatorsFit(node.right)
      [] node.kind = "Group" -> OperatorsFit(node.inner)
      [] node.kind \in {"Identifier", "Const"} -> TRUE
      [] OTHER -> FALSE

\* the leaves of the tree from left to right, as the tokens they come from
RECURSIVE LeafTokens(_)
LeafTokens(node) ==
    CASE node.kind = "SingleOp" -> LeafTokens(node.operand)
      [] node.kind = "DoubleOp" ->
            LeafTokens(node.left) \o LeafTokens(node.right)
      [] node.kind = "Group" -> LeafTokens(node.inner)
      [] node.kind = "Identifier" -> <<TokIdentifier(node.ch)>>
      [] node.kind = "Const" ->
            <<Token(IF node.value THEN "ConstTrue" ELSE "ConstFalse")>>

\* a token that parse_factor turns into a leaf
IsOperandToken(tok) == tok.type \in {"Identifier", "ConstTrue", "ConstFalse"}

\* C27: the AST of a successful parse has NOT in every SingleOp and one
\* of AND, OR, XOR, EQUAL in every DoubleOp, as many Group nodes as
\* GROUP_OPEN and as GROUP_CLOSE tokens were consumed, and its leaves are,
\* in number and in order, the IDENTIFIER and constant tokens consumed
C27_WellFormed ==
    pc = "parsed" =>
        /\ OperatorsFit(parsed.node)
        /\ GroupCount(parsed.node) = TypeCount(tokens, position, "GroupOpen")
        /\ GroupCount(parsed.node) = TypeCount(tokens, position, "GroupClose")
        /\ Len(LeafTokens(parsed.node)) =
              Cardinality({i \in 1..position : IsOperandToken(tokens[i])})
        /\ LeafTokens(parsed.node) =
              SelectSeq(SubSeq(tokens, 1, position), IsOperandToken)

C27_Witness ==
    /\ pc = "parsed"
    /\ position = 3
    /\ tokens[1].type = "GroupOpen"
    /\ tokens[3].type = "GroupClose"
    /\ parsed.node.kind = "Group"
    /\ GroupCount(parsed.node) = 1
    /\ LeafTokens(parsed.node) = <<tokens[2]>>

\* C28, the state part: the parser's position is within 0..len(tokens);
\* consume moves a position with a token by exactly one and leaves the
\* end-of-input position; and whatever position a parse function is
\* entered at, the position it leaves is not before it and not past the end
C28_PositionWithin ==
    /\ 0 <= position
    /\ position <= Len(tokens)
    /\ Parsed =>
          /\ consume(tokens, Len(tokens)) = Len(tokens)
          /\ \A p \in 0..(Len(tokens) - 1) :
                HasToken(tokens, p) /\ consume(tokens, p) = p + 1
          /\ \A p \in 0..Len(tokens) :
                \A r \in {parse_eq(tokens, p), parse_and(tokens, p),
                           parse_not(tokens, p), parse_factor(tokens, p)} :
                   r.pos \in p..Len(tokens)

\* C28, the step part: no step moves the position back, and once
\* Parser::new has taken the tokens no step changes them
C28_SingleForwardPass ==
    [][/\ position' >= position
       /\ pc \notin {"start", "tokenized"} => tokens' = tokens]_vars

\* C28: the position stays within the tokens and never decreases, consume
\* advances by one or stays at end-of-input, and the tokens are never
\* modified
C28_PositionInvariants ==
    []C28_PositionWithin /\ C28_SingleForwardPass

C28_Witness ==
    /\ pc = "parse_error"
    /\ Len(tokens) = 4
    /\ tokens[1].type = "GroupOpen"
    /\ position = Len(tokens)
    /\ consume(tokens, position) = position

\* C29: with n identifiers in the index, evaluate(pass) is the outcome of
\* evaluate on the n low bits of pass alone, so two masks that agree on
\* those bits give the same outcome, and a constant expression (n = 0)
\* gives the outcome of mask 0 for every mask
C29_OnlyLowBits ==
    Called =>
        last.result =
            evaluate(ident_bit_index, ast,
                     last.pass % (2 ^ Cardinality(DOMAIN ident_bit_index)))

C29_Witness ==
    /\ pc = "evaluated"
    /\ ast = Identifier(97)
    /\ last.pass = 2
    /\ last.result = Val(FALSE)

====
